---- MODULE Spec2Model ----
(***************************************************************************)
(* A model of the Raft consensus module of src/raft.go: three replicas,    *)
(* each a ConsensusModule with its mutex, its two internal channels, its   *)
(* election timers, its heartbeat loops, its commit loop and the per-peer  *)
(* RPC goroutines it starts.  Every step is one critical section of the    *)
(* code (the text between a cm.mu.Lock() and its Unlock) or one channel    *)
(* operation done outside the mutex.  Log indices are the code's, 0-based; *)
(* the entry at index k of a log is log[k + 1] here.                       *)
(***************************************************************************)
EXTENDS Integers, Sequences, FiniteSets, TLC

VARIABLES
    cm,         \* cm[i]: the ConsensusModule of replica i and its tasks
    storage,    \* storage[i]: what replica i's Storage holds
    elections,  \* the elections with vote-request goroutines still running
    aes,        \* the AppendEntries goroutines still running
    delivered,  \* delivered[i]: the CommitEntry values sent on commitChan
    voted,      \* voted[i]: every <<term, votedFor>> replica i has held
    timeouts    \* how many election timeouts have elapsed

vars == <<cm, storage, elections, aes, delivered, voted, timeouts>>

\* ------------------------------------------------------------------ bounds
\* Of Spec, the whole program:
MaxTimeouts == 1  \* election timeouts that elapse in a run
MaxTerm == 1      \* no election timeout elapses on a replica in term MaxTerm
MaxLog == 1       \* Submit is not called on a log of MaxLog entries
MaxRpc == 1       \* RPC goroutines running at once; further calls fail at once
MaxStops == 1     \* replicas stopped in a run
\* Of SpecElection, the elections and Submit alone:
ElMaxTimeouts == 4
ElMaxTerm == 4
ElMaxRpc == 2
ElMaxLog == 1
\* Of SpecReplication, two candidates and one leader's replication:
ReMaxTimeouts == 4
ReMaxTerm == 2
ReMaxRpc == 2
ReMaxLog == 1
\* Of SpecStop, elections, heartbeats and Stop:
StMaxTimeouts == 2
StMaxTerm == 2
StMaxRpc == 1
StMaxStops == 1
\* Of SpecDelivery, one leader's replication and the commit loops:
DeMaxTimeouts == 1
DeMaxTerm == 1
DeMaxRpc == 2
DeMaxLog == 2
\* Of SpecTruncate, two leaders of different terms replicating to one peer:
TrMaxTimeouts == 5
TrMaxTerm == 2
TrMaxRpc == 2
TrMaxLog == 2
\* Of SpecLeaders, leaders that append and send AppendEntries to each other:
LeMaxTimeouts == 3
LeMaxTerm == 2
LeMaxRpc == 1
LeMaxLog == 2
\* Of SpecDrain, a leader that stops while its successor replicates to it:
DrMaxTimeouts == 2
DrMaxTerm == 1
DrMaxRpc == 2
DrMaxLog == 2
DrMaxStops == 1
\* Of SpecVote, the RequestVote handler on drawn voters and candidates:
VoMaxLen == 2
VoMaxTerm == 3
\* Of SpecAppend, the AppendEntries handler on drawn logs and requests:
ApMaxLen == 3     \* entries in a log and in a request
ApMaxTerm == 2    \* terms of the entries, of the follower and of the request

\* --------------------------------------------------------------- constants
Server == {1, 2, 3}
PeerIds(i) == Server \ {i}
\* The commands the client of replica i submits: one value, its own.
Command(i) == {i}

Follower == "Follower"
Candidate == "Candidate"
Leader == "Leader"
Dead == "Dead"

NewCommitReadyCap == 16
TriggerAECap == 1

NoData == [has |-> FALSE, currentTerm |-> 0, votedFor |-> 0, log |-> <<>>]

\* ----------------------------------------------------------------- helpers
intMin(a, b) == IF a < b THEN a ELSE b

\* The code's log[k], k counted from 0.
LogAt(log, k) == log[k + 1]

\* The code's log[from:], from counted from 0.
LogFrom(log, from) == SubSeq(log, from + 1, Len(log))

\* The code's log[:upto], upto counted from 0.
LogUpto(log, upto) == SubSeq(log, 1, upto)

lastLogIndexAndTerm(log) ==
    IF Len(log) > 0 THEN <<Len(log) - 1, log[Len(log)].Term>> ELSE <<-1, -1>>

\* The mutex of replica i can be taken: no task holds it blocked on a send,
\* and the process has not panicked.
Free(i) == cm[i].held = <<>> /\ ~cm[i].panicked

\* RPC goroutines now running.
RpcCount ==
    Cardinality(aes)
    + Cardinality({<<e, p>> \in elections \X Server : p \in DOMAIN e.calls})

\* The peers an RPC round reaches, among the replicas reach that the
\* transport delivers to: the calls to the others fail at once.
Reached(i, maxRpc, reach) ==
    {S \in SUBSET (PeerIds(i) \cap reach) : Cardinality(S) + RpcCount <= maxRpc}

\* ------------------------------------------------------------ construction
NewConsensusModule(i) ==
    [ state |-> Follower,
      currentTerm |-> 0,
      votedFor |-> -1,
      log |-> <<>>,
      commitIndex |-> -1,
      lastApplied |-> -1,
      nextIndex |-> [p \in PeerIds(i) |-> 0],
      matchIndex |-> [p \in PeerIds(i) |-> 0],
      newCommitReady |-> 0,
      closed |-> FALSE,
      triggerAE |-> 0,
      held |-> <<>>,
      panicked |-> FALSE,
      timers |-> 1,
      hbSend |-> 0,
      hbWait |-> 0,
      hbCheck |-> 0,
      submitting |-> 0,
      entries |-> <<>>,
      savedTerm |-> 0,
      savedLastApplied |-> -1,
      sent |-> 0 ]

Init ==
    /\ cm = [i \in Server |-> NewConsensusModule(i)]
    /\ storage = [i \in Server |-> NoData]
    /\ elections = {}
    /\ aes = {}
    /\ delivered = [i \in Server |-> <<>>]
    /\ voted = [i \in Server |-> {}]
    /\ timeouts = 0

\* Every <<term, votedFor>> a replica holds is recorded.
Record ==
    voted' = [i \in Server |->
                 IF cm'[i].votedFor # -1
                 THEN voted[i] \cup {<<cm'[i].currentTerm, cm'[i].votedFor>>}
                 ELSE voted[i]]

\* ------------------------------------------------------- role transitions
\* runElectionTimer polls every 10 ms and returns at the first tick that
\* finds the replica Leader or Dead or in another term than the one the
\* timer started in.  cm[i].timers counts the timers of replica i that
\* would not return at their next tick: a timer reads its term as soon as
\* it is started, and the tick at which a timer returns is taken with the
\* step that changed the state or the term.
becomeFollower(r, term) ==
    [r EXCEPT !.state = Follower,
              !.currentTerm = term,
              !.votedFor = -1,
              !.timers = IF r.currentTerm = term
                            /\ r.state \in {Follower, Candidate}
                         THEN @ + 1 ELSE 1]

startLeader(r, i) ==
    [r EXCEPT !.state = Leader,
              !.nextIndex = [p \in PeerIds(i) |-> Len(r.log)],
              !.matchIndex = [p \in PeerIds(i) |-> -1],
              !.timers = 0,
              !.hbSend = @ + 1]

\* --------------------------------------------------------- election timer
NewCall == [phase |-> "new", a |-> -1, b |-> -1, ok |-> FALSE]

startElection(r, i) ==
    [r EXCEPT !.state = Candidate,
              !.currentTerm = @ + 1,
              !.votedFor = i,
              !.timers = 1]

\* A tick of an election timer after the election timeout: startElection,
\* which starts one goroutine per peer and the next timer.
runElectionTimer(i, maxTimeouts, maxTerm, maxRpc, reach) ==
    /\ Free(i)
    /\ cm[i].timers > 0
    /\ cm[i].state \in {Candidate, Follower}
    /\ timeouts < maxTimeouts
    /\ cm[i].currentTerm < maxTerm
    /\ timeouts' = timeouts + 1
    /\ \E S \in Reached(i, maxRpc, reach) :
          LET r == startElection(cm[i], i)
              e == [cand |-> i, term |-> r.currentTerm, votes |-> 1,
                    calls |-> [p \in S |-> NewCall]]
          IN  /\ e \notin elections
              /\ cm' = [cm EXCEPT ![i] = r]
              /\ elections' = IF S = {} THEN elections ELSE elections \cup {e}
    /\ Record
    /\ UNCHANGED <<storage, aes, delivered>>

\* ------------------------------------------------------------ RequestVote
\* An election with the call to p changed to c, or ended; an election whose
\* goroutines have all returned is dropped.
WithCall(e, p, c) == [e EXCEPT !.calls = [@ EXCEPT ![p] = c]]

WithoutCall(e, p) ==
    [e EXCEPT !.calls = [q \in DOMAIN e.calls \ {p} |-> e.calls[q]]]

Replace(e, f) ==
    IF DOMAIN f.calls = {} THEN elections \ {e} ELSE (elections \ {e}) \cup {f}

\* The goroutine of startElection reads its last log index and term and
\* sends RequestVoteArgs.
RequestVoteSend(e, p) ==
    /\ Free(e.cand)
    /\ e.calls[p].phase = "new"
    /\ LET last == lastLogIndexAndTerm(cm[e.cand].log)
       IN  elections' = Replace(e, WithCall(e, p,
               [phase |-> "req", a |-> last[1], b |-> last[2], ok |-> FALSE]))
    /\ UNCHANGED <<cm, storage, aes, delivered, voted, timeouts>>

\* A grant rule that would compare the last log indexes alone.
VoteGrantedByIndex(r, last, term, candidateId, lastLogIndex, lastLogTerm) ==
    /\ r.currentTerm = term
    /\ (r.votedFor = -1 \/ r.votedFor = candidateId)
    /\ lastLogIndex >= last[1]

\* Whether RequestVote grants, on the replica as it is after adopting a
\* larger term; last is the last log index and term read on entry.
VoteGranted(r, last, term, candidateId, lastLogIndex, lastLogTerm) ==
    /\ r.currentTerm = term
    /\ (r.votedFor = -1 \/ r.votedFor = candidateId)
    /\ \/ lastLogTerm > last[2]
       \/ (lastLogTerm = last[2] /\ lastLogIndex >= last[1])

\* The RequestVote handler on replica p.
RequestVote(e, p) ==
    /\ Free(p)
    /\ e.calls[p].phase = "req"
    /\ IF cm[p].state = Dead
       THEN /\ elections' = Replace(e, WithCall(e, p,
                   [phase |-> "rep", a |-> 0, b |-> -1, ok |-> FALSE]))
            /\ UNCHANGED cm
       ELSE LET last == lastLogIndexAndTerm(cm[p].log)
                r1 == IF e.term > cm[p].currentTerm
                      THEN becomeFollower(cm[p], e.term) ELSE cm[p]
                grant == VoteGranted(r1, last, e.term, e.cand,
                                     e.calls[p].a, e.calls[p].b)
                r2 == IF grant THEN [r1 EXCEPT !.votedFor = e.cand] ELSE r1
            IN  /\ cm' = [cm EXCEPT ![p] = r2]
                /\ elections' = Replace(e, WithCall(e, p,
                       [phase |-> "rep", a |-> r2.currentTerm, b |-> -1,
                        ok |-> grant]))
    /\ Record
    /\ UNCHANGED <<storage, aes, delivered, timeouts>>

\* The candidate's goroutine handles RequestVoteReply.
RequestVoteReply(e, p) ==
    /\ Free(e.cand)
    /\ e.calls[p].phase = "rep"
    /\ LET i == e.cand
           reply == e.calls[p]
           counted == cm[i].state = Candidate /\ reply.a = e.term /\ reply.ok
           votes == IF counted THEN e.votes + 1 ELSE e.votes
           r == IF cm[i].state # Candidate THEN cm[i]
                ELSE IF reply.a > e.term THEN becomeFollower(cm[i], reply.a)
                ELSE IF counted /\ votes * 2 > Cardinality(PeerIds(i)) + 1
                     THEN startLeader(cm[i], i)
                ELSE cm[i]
       IN  /\ cm' = [cm EXCEPT ![i] = r]
           /\ elections' = Replace(e, [WithoutCall(e, p) EXCEPT !.votes = votes])
    /\ Record
    /\ UNCHANGED <<storage, aes, delivered, timeouts>>


\* ---------------------------------------------------------------- channels
\* The sends a task does while it holds the mutex are kept in held; Sends
\* does them in order until one must wait for room (the task then stays
\* blocked holding the mutex) or all are done.  A send on the closed
\* newCommitReadyChan panics.
RECURSIVE Sends(_)
Sends(r) ==
    IF r.held = <<>> THEN r
    ELSE IF Head(r.held) = "newCommitReady"
    THEN IF r.closed THEN [r EXCEPT !.panicked = TRUE, !.held = <<>>]
         ELSE IF r.newCommitReady < NewCommitReadyCap
         THEN Sends([r EXCEPT !.newCommitReady = @ + 1, !.held = Tail(@)])
         ELSE r
    ELSE IF r.triggerAE < TriggerAECap
         THEN Sends([r EXCEPT !.triggerAE = @ + 1, !.held = Tail(@)])
         ELSE r

\* A task blocked on a send while holding the mutex goes on once the
\* channel has room.
BlockedSend(i) ==
    /\ ~cm[i].panicked
    /\ cm[i].held # <<>>
    /\ Sends(cm[i]) # cm[i]
    /\ cm' = [cm EXCEPT ![i] = Sends(cm[i])]
    /\ UNCHANGED <<storage, elections, aes, delivered, voted, timeouts>>

\* ------------------------------------------------------------- persistence
persistToStorage(r) ==
    [has |-> TRUE, currentTerm |-> r.currentTerm, votedFor |-> r.votedFor,
     log |-> r.log]

\* ------------------------------------------------------------------ Submit
\* A Submit that would store the new entry as the whole log instead of
\* appending it: the Leader Append-Only property must tell it from Submit.
SubmitReplacing(i, command, maxLog) ==
    /\ Free(i)
    /\ Len(cm[i].log) < maxLog
    /\ IF cm[i].state = Leader
       THEN LET r == [cm[i] EXCEPT
                         !.log = <<[Command |-> command,
                                    Term |-> cm[i].currentTerm]>>,
                         !.submitting = @ + 1]
            IN  /\ cm' = [cm EXCEPT ![i] = r]
                /\ storage' = [storage EXCEPT ![i] = persistToStorage(r)]
       ELSE UNCHANGED <<cm, storage>>
    /\ UNCHANGED <<elections, aes, delivered, voted, timeouts>>

\* A Submit that would also accept the command on a Candidate.
SubmittedUnlessFollower(r, command) ==
    IF r.state \in {Leader, Candidate}
    THEN [replica |-> [r EXCEPT !.log = Append(@, [Command |-> command,
                                                   Term |-> r.currentTerm]),
                                !.submitting = @ + 1],
          ok |-> TRUE]
    ELSE [replica |-> r, ok |-> FALSE]

\* What Submit does to the replica under the mutex, and whether it goes on
\* to return true (ok) or returns false.
Submitted(r, command) ==
    IF r.state = Leader
    THEN [replica |-> [r EXCEPT !.log = Append(@, [Command |-> command,
                                                   Term |-> r.currentTerm]),
                                !.submitting = @ + 1],
          ok |-> TRUE]
    ELSE [replica |-> r, ok |-> FALSE]

\* Submit under the mutex; the send on triggerAEChan follows the unlock.
Submit(i, command, maxLog) ==
    /\ Free(i)
    /\ Len(cm[i].log) < maxLog
    /\ LET s == Submitted(cm[i], command)
       IN  /\ cm' = [cm EXCEPT ![i] = s.replica]
           /\ storage' = IF s.ok
                         THEN [storage EXCEPT ![i] = persistToStorage(s.replica)]
                         ELSE storage
    /\ UNCHANGED <<elections, aes, delivered, voted, timeouts>>

\* Submit's send on triggerAEChan, after which it returns true.
SubmitSend(i) ==
    /\ ~cm[i].panicked
    /\ cm[i].submitting > 0
    /\ cm[i].triggerAE < TriggerAECap
    /\ cm' = [cm EXCEPT ![i].submitting = @ - 1, ![i].triggerAE = @ + 1]
    /\ UNCHANGED <<storage, elections, aes, delivered, voted, timeouts>>

\* -------------------------------------------------------------------- Stop
Stop(i, maxStops) ==
    /\ Free(i)
    /\ ~cm[i].closed
    /\ Cardinality({j \in Server : cm[j].closed}) < maxStops
    /\ cm' = [cm EXCEPT ![i].state = Dead, ![i].closed = TRUE,
                        ![i].timers = 0]
    /\ UNCHANGED <<storage, elections, aes, delivered, voted, timeouts>>

\* -------------------------------------------------------------- commitLoop
\* The entry commitLoop reads at index k: past the end of a truncated log
\* the slice still shows what its array holds, which the model does not
\* keep.
Stale == [Command |-> 0, Term |-> -1]

Slot(log, k) == IF k < Len(log) THEN LogAt(log, k) ELSE Stale

\* The replica after commitLoop took a signal and, under the mutex, the
\* entries past lastApplied up to commitIndex; entries, savedTerm and
\* savedLastApplied are the locals the loop then sends from.
Taken(r) ==
    LET n == IF r.commitIndex > r.lastApplied
             THEN r.commitIndex - r.lastApplied ELSE 0
    IN  [r EXCEPT !.newCommitReady = @ - 1,
                  !.entries = [k \in 1..n |-> Slot(r.log, r.lastApplied + k)],
                  !.savedTerm = IF n > 0 THEN r.currentTerm ELSE 0,
                  !.savedLastApplied = IF n > 0 THEN r.lastApplied ELSE -1,
                  !.sent = 0,
                  !.lastApplied = IF n > 0 THEN r.commitIndex ELSE @]

commitLoop(i) ==
    /\ Free(i)
    /\ cm[i].entries = <<>>
    /\ cm[i].newCommitReady > 0
    /\ cm' = [cm EXCEPT ![i] = Taken(cm[i])]
    /\ UNCHANGED <<storage, elections, aes, delivered, voted, timeouts>>

\* A CommitEntry whose Index is counted from the start of the batch, not
\* from savedLastApplied.
CommitEntryInBatch(r, k) ==
    [Command |-> r.entries[k + 1].Command,
     Index |-> k,
     Term |-> r.savedTerm]

\* The CommitEntry commitLoop makes of entries[k], k counted from 0.
CommitEntry(r, k) ==
    [Command |-> r.entries[k + 1].Command,
     Index |-> r.savedLastApplied + k + 1,
     Term |-> r.savedTerm]

\* commitLoop sends the next CommitEntry on commitChan and the client
\* receives it; delivered keeps it with the log entry it was made of.  The
\* locals are cleared after the last one.
commitSend(i) ==
    /\ ~cm[i].panicked
    /\ cm[i].entries # <<>>
    /\ LET r == cm[i]
       IN  /\ delivered' = [delivered EXCEPT ![i] =
                  Append(@, [commit |-> CommitEntry(r, r.sent),
                             entry |-> r.entries[r.sent + 1]])]
           /\ cm' = [cm EXCEPT ![i] =
                  IF r.sent + 1 < Len(r.entries)
                  THEN [r EXCEPT !.sent = @ + 1]
                  ELSE [r EXCEPT !.sent = 0, !.entries = <<>>,
                                 !.savedTerm = 0, !.savedLastApplied = -1]]
    /\ UNCHANGED <<storage, elections, aes, voted, timeouts>>

\* ------------------------------------------------ heartbeat / append loop
NewAE(i, p, term) ==
    [from |-> i, to |-> p, term |-> term, phase |-> "new", ni |-> 0,
     prevLogTerm |-> -1, entries |-> <<>>, leaderCommit |-> -1,
     rterm |-> 0, success |-> FALSE]

\* sendAppendEntries as the heartbeat loop calls it: the term is read under
\* the mutex and one goroutine per peer is started.
sendAppendEntries(i, maxRpc, reach) ==
    /\ Free(i)
    /\ cm[i].hbSend > 0
    /\ \E S \in Reached(i, maxRpc, reach) :
          LET new == {NewAE(i, p, cm[i].currentTerm) : p \in S}
          IN  /\ new \cap aes = {}
              /\ aes' = aes \cup new
    /\ cm' = [cm EXCEPT ![i].hbSend = @ - 1, ![i].hbWait = @ + 1]
    /\ UNCHANGED <<storage, elections, delivered, voted, timeouts>>

\* The select of the heartbeat loop: the 50 ms timer fires.
heartbeatTimer(i) ==
    /\ ~cm[i].panicked
    /\ cm[i].hbWait > 0
    /\ cm' = [cm EXCEPT ![i].hbWait = @ - 1, ![i].hbCheck = @ + 1]
    /\ UNCHANGED <<storage, elections, aes, delivered, voted, timeouts>>

\* The select of the heartbeat loop: a value is received from triggerAEChan.
heartbeatTrigger(i) ==
    /\ ~cm[i].panicked
    /\ cm[i].hbWait > 0
    /\ cm[i].triggerAE > 0
    /\ cm' = [cm EXCEPT ![i].hbWait = @ - 1, ![i].hbCheck = @ + 1,
                        ![i].triggerAE = @ - 1]
    /\ UNCHANGED <<storage, elections, aes, delivered, voted, timeouts>>

\* The heartbeat loop checks the state under the mutex: it returns unless
\* the replica is Leader.
heartbeatCheck(i) ==
    /\ Free(i)
    /\ cm[i].hbCheck > 0
    /\ cm' = [cm EXCEPT ![i].hbCheck = @ - 1,
                        ![i].hbSend = IF cm[i].state = Leader THEN @ + 1 ELSE @]
    /\ UNCHANGED <<storage, elections, aes, delivered, voted, timeouts>>

\* ---------------------------------------------------------- AppendEntries
\* The goroutine of sendAppendEntries builds AppendEntriesArgs under the
\* mutex; an index outside the log panics.
AppendEntriesSend(g) ==
    /\ Free(g.from)
    /\ g.phase = "new"
    /\ LET r == cm[g.from]
           ni == r.nextIndex[g.to]
       IN  IF ni < 0 \/ ni > Len(r.log)
           THEN /\ cm' = [cm EXCEPT ![g.from].panicked = TRUE]
                /\ aes' = aes \ {g}
           ELSE /\ aes' = (aes \ {g}) \cup
                      {[g EXCEPT !.phase = "req",
                                 !.ni = ni,
                                 !.prevLogTerm =
                                     IF ni - 1 >= 0
                                     THEN LogAt(r.log, ni - 1).Term ELSE -1,
                                 !.entries = LogFrom(r.log, ni),
                                 !.leaderCommit = r.commitIndex]}
                /\ UNCHANGED cm
    /\ UNCHANGED <<storage, elections, delivered, voted, timeouts>>

\* A matching loop that ends at once: every entry of the request is
\* inserted.
MatchingNone(log, logInsertIndex, entries) == 0

\* How many of the entries, from logInsertIndex on, the log already holds
\* with the same terms: the loop of AppendEntries.
Matching(log, logInsertIndex, entries) ==
    LET lim == intMin(Len(log) - logInsertIndex, Len(entries))
        diff == {k \in 0..(lim - 1) :
                    LogAt(log, logInsertIndex + k).Term # entries[k + 1].Term}
    IN  IF diff = {} THEN lim
        ELSE CHOOSE k \in diff : \A m \in diff : k <= m

\* Whether AppendEntries accepts the request on log.
PrevMatches(log, prevLogIndex, prevLogTerm) ==
    \/ prevLogIndex = -1
    \/ /\ prevLogIndex < Len(log)
       /\ prevLogTerm = LogAt(log, prevLogIndex).Term

\* The log after AppendEntries accepted entries after prevLogIndex.
Inserted(log, prevLogIndex, entries) ==
    LET newEntriesIndex == Matching(log, prevLogIndex + 1, entries)
        logInsertIndex == prevLogIndex + 1 + newEntriesIndex
    IN  IF newEntriesIndex < Len(entries)
        THEN LogUpto(log, logInsertIndex)
                 \o SubSeq(entries, newEntriesIndex + 1, Len(entries))
        ELSE log

\* The replica after the accepting branch of AppendEntries.
Accept(r, g) ==
    LET log == Inserted(r.log, g.ni - 1, g.entries)
        r1 == [r EXCEPT !.log = log]
    IN  IF g.leaderCommit > r.commitIndex
        THEN Sends([r1 EXCEPT
                       !.commitIndex = intMin(g.leaderCommit, Len(log) - 1),
                       !.held = <<"newCommitReady">>])
        ELSE r1

\* The replica r, not Dead, after the AppendEntries handler ran on the
\* request of g, and the Success of its reply.
Handled(r, g) ==
    LET r1 == IF g.term > r.currentTerm
              THEN becomeFollower(r, g.term) ELSE r
        r2 == IF g.term = r1.currentTerm /\ r1.state # Follower
              THEN becomeFollower(r1, g.term) ELSE r1
        success == /\ g.term = r2.currentTerm
                   /\ PrevMatches(r2.log, g.ni - 1, g.prevLogTerm)
    IN  [replica |-> IF success THEN Accept(r2, g) ELSE r2,
         success |-> success]

\* The AppendEntries handler on replica g.to.
AppendEntries(g) ==
    /\ Free(g.to)
    /\ g.phase = "req"
    /\ LET r == cm[g.to]
           h == Handled(r, g)
       IN  IF r.state = Dead
           THEN /\ aes' = (aes \ {g}) \cup
                       {[g EXCEPT !.phase = "rep", !.rterm = 0,
                                  !.success = FALSE]}
                /\ UNCHANGED cm
           ELSE /\ cm' = [cm EXCEPT ![g.to] = h.replica]
                /\ aes' = (aes \ {g}) \cup
                       {[g EXCEPT !.phase = "rep",
                                  !.rterm = h.replica.currentTerm,
                                  !.success = h.success]}
    /\ Record
    /\ UNCHANGED <<storage, elections, delivered, timeouts>>

\* The transport delivers the request of g a second time: the handler runs
\* again on the same AppendEntriesArgs, and the caller, which has its reply,
\* has no use for the second one.
AppendEntriesReplay(g) ==
    /\ Free(g.to)
    /\ g.phase = "rep"
    /\ cm' = [cm EXCEPT ![g.to] =
                 IF @.state = Dead THEN @ ELSE Handled(@, g).replica]
    /\ aes' = (aes \ {g}) \cup {[g EXCEPT !.phase = "dup"]}
    /\ Record
    /\ UNCHANGED <<storage, elections, delivered, timeouts>>

\* A scan that would commit the entries of any term.
AdvancedInAnyTerm(r, i) ==
    LET ok == {k \in (r.commitIndex + 1)..(Len(r.log) - 1) :
                  (1 + Cardinality({p \in PeerIds(i) : r.matchIndex[p] >= k}))
                      * 2 > Cardinality(PeerIds(i)) + 1}
    IN  IF ok = {} THEN r.commitIndex
        ELSE CHOOSE k \in ok : \A m \in ok : m <= k

\* The commitIndex the leader's scan ends with.
Advanced(r, i) ==
    LET ok == {k \in (r.commitIndex + 1)..(Len(r.log) - 1) :
                  /\ LogAt(r.log, k).Term = r.currentTerm
                  /\ (1 + Cardinality({p \in PeerIds(i) : r.matchIndex[p] >= k}))
                         * 2 > Cardinality(PeerIds(i)) + 1}
    IN  IF ok = {} THEN r.commitIndex
        ELSE CHOOSE k \in ok : \A m \in ok : m <= k

\* The leader after a successful reply from peer p.
Succeeded(r, i, g) ==
    LET r1 == [r EXCEPT !.nextIndex[g.to] = g.ni + Len(g.entries),
                        !.matchIndex[g.to] = g.ni + Len(g.entries) - 1]
        commitIndex == Advanced(r1, i)
    IN  IF commitIndex # r.commitIndex
        THEN Sends([r1 EXCEPT !.commitIndex = commitIndex,
                              !.held = <<"newCommitReady", "triggerAE">>])
        ELSE r1

\* The goroutine of sendAppendEntries handles AppendEntriesReply.
AppendEntriesReply(g) ==
    /\ Free(g.from)
    /\ g.phase = "rep"
    /\ LET i == g.from
           r == cm[i]
       IN  cm' = [cm EXCEPT ![i] =
                 IF g.rterm > g.term THEN becomeFollower(r, g.rterm)
                 ELSE IF r.state = Leader /\ g.term = g.rterm
                 THEN IF g.success THEN Succeeded(r, i, g)
                      ELSE [r EXCEPT !.nextIndex[g.to] = g.ni - 1]
                 ELSE r]
    /\ aes' = aes \ {g}
    /\ Record
    /\ UNCHANGED <<storage, elections, delivered, timeouts>>

\* ---------------------------------------------------------- specification
Next ==
    \/ \E i \in Server : runElectionTimer(i, MaxTimeouts, MaxTerm, MaxRpc, Server)
    \/ \E e \in elections, p \in Server :
          p \in DOMAIN e.calls /\ RequestVoteSend(e, p)
    \/ \E e \in elections, p \in Server :
          p \in DOMAIN e.calls /\ RequestVote(e, p)
    \/ \E e \in elections, p \in Server :
          p \in DOMAIN e.calls /\ RequestVoteReply(e, p)
    \/ \E i \in Server : \E c \in Command(i) : Submit(i, c, MaxLog)
    \/ \E i \in Server : SubmitSend(i)
    \/ \E i \in Server : sendAppendEntries(i, MaxRpc, Server)
    \/ \E i \in Server : heartbeatTimer(i)
    \/ \E i \in Server : heartbeatTrigger(i)
    \/ \E i \in Server : heartbeatCheck(i)
    \/ \E g \in aes : AppendEntriesSend(g)
    \/ \E g \in aes : AppendEntries(g)
    \/ \E g \in aes : AppendEntriesReply(g)
    \/ \E i \in Server : BlockedSend(i)
    \/ \E i \in Server : commitLoop(i)
    \/ \E i \in Server : commitSend(i)
    \/ \E i \in Server : Stop(i, MaxStops)

Spec == Init /\ [][Next]_vars

\* The whole program with its goroutines scheduled fairly: a goroutine that
\* can take its next step takes it, and a select of the heartbeat loop that
\* again and again finds a value on triggerAEChan receives one.  Election
\* timeouts, calls of Submit and calls of Stop are the environment's.
Fairness ==
    /\ \A i \in Server :
          /\ WF_vars(SubmitSend(i))
          /\ WF_vars(sendAppendEntries(i, MaxRpc, Server))
          /\ WF_vars(heartbeatTimer(i))
          /\ SF_vars(heartbeatTrigger(i))
          /\ WF_vars(heartbeatCheck(i))
          /\ WF_vars(BlockedSend(i))
          /\ WF_vars(commitLoop(i))
          /\ WF_vars(commitSend(i))
    /\ WF_vars(\E e \in elections, p \in Server :
                  p \in DOMAIN e.calls /\ RequestVoteSend(e, p))
    /\ WF_vars(\E e \in elections, p \in Server :
                  p \in DOMAIN e.calls /\ RequestVote(e, p))
    /\ WF_vars(\E e \in elections, p \in Server :
                  p \in DOMAIN e.calls /\ RequestVoteReply(e, p))
    /\ WF_vars(\E g \in aes : AppendEntriesSend(g))
    /\ WF_vars(\E g \in aes : AppendEntries(g))
    /\ WF_vars(\E g \in aes : AppendEntriesReply(g))

SpecFair == Init /\ [][Next]_vars /\ Fairness

\* The elections and Submit: no heartbeat loop runs and no replica stops.
NextElection ==
    \/ \E i \in Server : runElectionTimer(i, ElMaxTimeouts, ElMaxTerm, ElMaxRpc, Server)
    \/ \E e \in elections, p \in Server :
          p \in DOMAIN e.calls /\ RequestVoteSend(e, p)
    \/ \E e \in elections, p \in Server :
          p \in DOMAIN e.calls /\ RequestVote(e, p)
    \/ \E e \in elections, p \in Server :
          p \in DOMAIN e.calls /\ RequestVoteReply(e, p)
    \/ \E i \in Server : \E c \in Command(i) : Submit(i, c, ElMaxLog)
    \/ \E i \in Server : SubmitSend(i)

SpecElection == Init /\ [][NextElection]_vars

\* Replication with two replicas racing for the votes of the third: the
\* election timeout elapses on the replicas of ReTimers alone, the
\* transport delivers to the replicas of ReReach alone, the client submits
\* to the replicas of ReClients alone, and no replica stops.
ReTimers == {1, 3}
ReReach == {2}
ReClients == {1}

NextReplication ==
    \/ \E i \in ReTimers : runElectionTimer(i, ReMaxTimeouts, ReMaxTerm, ReMaxRpc, ReReach)
    \/ \E e \in elections, p \in Server :
          p \in DOMAIN e.calls /\ RequestVoteSend(e, p)
    \/ \E e \in elections, p \in Server :
          p \in DOMAIN e.calls /\ RequestVote(e, p)
    \/ \E e \in elections, p \in Server :
          p \in DOMAIN e.calls /\ RequestVoteReply(e, p)
    \/ \E i \in ReClients : \E c \in Command(i) : Submit(i, c, ReMaxLog)
    \/ \E i \in Server : SubmitSend(i)
    \/ \E i \in Server : sendAppendEntries(i, ReMaxRpc, ReReach)
    \/ \E i \in Server : heartbeatTimer(i)
    \/ \E i \in Server : heartbeatTrigger(i)
    \/ \E i \in Server : heartbeatCheck(i)
    \/ \E g \in aes : AppendEntriesSend(g)
    \/ \E g \in aes : AppendEntries(g)
    \/ \E g \in aes : AppendEntriesReply(g)
    \/ \E i \in Server : BlockedSend(i)
    \/ \E i \in Server : commitLoop(i)
    \/ \E i \in Server : commitSend(i)

SpecReplication == Init /\ [][NextReplication]_vars

\* Elections, heartbeats and Stop: no client submits.
NextStop ==
    \/ \E i \in Server : runElectionTimer(i, StMaxTimeouts, StMaxTerm, StMaxRpc, Server)
    \/ \E e \in elections, p \in Server :
          p \in DOMAIN e.calls /\ RequestVoteSend(e, p)
    \/ \E e \in elections, p \in Server :
          p \in DOMAIN e.calls /\ RequestVote(e, p)
    \/ \E e \in elections, p \in Server :
          p \in DOMAIN e.calls /\ RequestVoteReply(e, p)
    \/ \E i \in Server : sendAppendEntries(i, StMaxRpc, Server)
    \/ \E i \in Server : heartbeatTimer(i)
    \/ \E i \in Server : heartbeatCheck(i)
    \/ \E g \in aes : AppendEntriesSend(g)
    \/ \E g \in aes : AppendEntries(g)
    \/ \E g \in aes : AppendEntriesReply(g)
    \/ \E i \in Server : Stop(i, StMaxStops)

SpecStop == Init /\ [][NextStop]_vars

\* One leader replicating to one follower: the election timeout elapses on
\* the replicas of DeTimers alone, the transport delivers to the replicas of
\* DeReach alone, the client submits to the replicas of DeClients alone.
DeTimers == {1}
DeReach == {2}
DeClients == {1}

NextDelivery ==
    \/ \E i \in DeTimers : runElectionTimer(i, DeMaxTimeouts, DeMaxTerm, DeMaxRpc, DeReach)
    \/ \E e \in elections, p \in Server :
          p \in DOMAIN e.calls /\ RequestVoteSend(e, p)
    \/ \E e \in elections, p \in Server :
          p \in DOMAIN e.calls /\ RequestVote(e, p)
    \/ \E e \in elections, p \in Server :
          p \in DOMAIN e.calls /\ RequestVoteReply(e, p)
    \/ \E i \in DeClients : \E c \in Command(i) : Submit(i, c, DeMaxLog)
    \/ \E i \in Server : SubmitSend(i)
    \/ \E i \in Server : sendAppendEntries(i, DeMaxRpc, DeReach)
    \/ \E i \in Server : heartbeatTimer(i)
    \/ \E i \in Server : heartbeatTrigger(i)
    \/ \E i \in Server : heartbeatCheck(i)
    \/ \E g \in aes : AppendEntriesSend(g)
    \/ \E g \in aes : AppendEntries(g)
    \/ \E g \in aes : AppendEntriesReply(g)
    \/ \E i \in Server : BlockedSend(i)
    \/ \E i \in Server : commitLoop(i)
    \/ \E i \in Server : commitSend(i)

SpecDelivery == Init /\ [][NextDelivery]_vars

\* Replicas 1 and 3 racing for the votes of replica 2 and replicating to it,
\* in the 50 ms after the last election timeout: the election timeout
\* elapses on replica 1 up to term TrMaxTerm and on replica 3 up to term
\* TrMaxTerm + 1, the transport delivers to the replicas of TrReach alone,
\* the client of replica 1 submits TrMaxLog commands and the client of
\* replica 3 one fewer, no heartbeat timer fires, no replica stops and no
\* commit loop has run yet.
TrReach == {2}

NextTruncate ==
    \/ runElectionTimer(1, TrMaxTimeouts, TrMaxTerm, TrMaxRpc, TrReach)
    \/ runElectionTimer(3, TrMaxTimeouts, TrMaxTerm + 1, TrMaxRpc, TrReach)
    \/ \E e \in elections, p \in Server :
          p \in DOMAIN e.calls /\ RequestVoteSend(e, p)
    \/ \E e \in elections, p \in Server :
          p \in DOMAIN e.calls /\ RequestVote(e, p)
    \/ \E e \in elections, p \in Server :
          p \in DOMAIN e.calls /\ RequestVoteReply(e, p)
    \/ \E c \in Command(1) : Submit(1, c, TrMaxLog)
    \/ \E c \in Command(3) : Submit(3, c, TrMaxLog - 1)
    \/ \E i \in Server : SubmitSend(i)
    \/ \E i \in Server : sendAppendEntries(i, TrMaxRpc, TrReach)
    \/ \E i \in Server : heartbeatTrigger(i)
    \/ \E i \in Server : heartbeatCheck(i)
    \/ \E g \in aes : AppendEntriesSend(g)
    \/ \E g \in aes : AppendEntries(g)
    \/ \E g \in aes : AppendEntriesReply(g)
    \/ \E i \in Server : BlockedSend(i)

SpecTruncate == Init /\ [][NextTruncate]_vars

\* Leaders that append and send AppendEntries to every replica, other
\* leaders included: the election timeout elapses on the replicas of
\* LeTimers alone, the clients submit the commands of LeCommands to replica 1
\* and one command to replica 2, the heartbeat loop is woken by Submit alone,
\* no replica stops and no commit loop has run yet.
LeTimers == {1, 2}
LeCommands == {1, 3}

NextLeaders ==
    \/ \E i \in LeTimers : runElectionTimer(i, LeMaxTimeouts, LeMaxTerm, LeMaxRpc, Server)
    \/ \E e \in elections, p \in Server :
          p \in DOMAIN e.calls /\ RequestVoteSend(e, p)
    \/ \E e \in elections, p \in Server :
          p \in DOMAIN e.calls /\ RequestVote(e, p)
    \/ \E e \in elections, p \in Server :
          p \in DOMAIN e.calls /\ RequestVoteReply(e, p)
    \/ \E c \in LeCommands : Submit(1, c, LeMaxLog)
    \/ \E c \in Command(2) : Submit(2, c, LeMaxLog - 1)
    \/ \E i \in Server : SubmitSend(i)
    \/ \E i \in Server : sendAppendEntries(i, LeMaxRpc, Server)
    \/ \E i \in Server : heartbeatTrigger(i)
    \/ \E i \in Server : heartbeatCheck(i)
    \/ \E g \in aes : AppendEntriesSend(g)
    \/ \E g \in aes : AppendEntries(g)
    \/ \E g \in aes : AppendEntriesReply(g)
    \/ \E i \in Server : BlockedSend(i)

SpecLeaders == Init /\ [][NextLeaders]_vars

\* The AppendEntries handler alone, on a follower and a request drawn from
\* bounded sets: the logs hold entries of terms that do not decrease, the
\* follower is in a term no smaller than the terms of its log, the request
\* is of a term no smaller than the terms of its entries.
ApEntry == [Command : {1, 3}, Term : 1..ApMaxTerm]

ApLog(maxTerm) ==
    {log \in UNION {[1..n -> ApEntry] : n \in 0..ApMaxLen} :
        /\ \A k \in 1..Len(log) : log[k].Term <= maxTerm
        /\ \A k \in 1..(Len(log) - 1) : log[k].Term <= log[k + 1].Term}

InitAppend ==
    /\ \E term \in 1..ApMaxTerm : \E log \in ApLog(term) :
          cm = [i \in Server |->
                   IF i = 2
                   THEN [NewConsensusModule(i) EXCEPT !.currentTerm = term,
                                                      !.log = log]
                   ELSE NewConsensusModule(i)]
    /\ \E term \in 1..ApMaxTerm, ni \in 0..ApMaxLen,
          prevLogTerm \in {-1} \cup 1..ApMaxTerm, leaderCommit \in -1..0 :
          \E entries \in ApLog(term) :
              /\ (ni = 0) = (prevLogTerm = -1)
              /\ aes = {[NewAE(1, 2, term) EXCEPT
                             !.phase = "req", !.ni = ni,
                             !.prevLogTerm = prevLogTerm,
                             !.entries = entries,
                             !.leaderCommit = leaderCommit]}
    /\ storage = [i \in Server |-> NoData]
    /\ elections = {}
    /\ delivered = [i \in Server |-> <<>>]
    /\ voted = [i \in Server |-> {}]
    /\ timeouts = 0

NextAppend ==
    \/ \E g \in aes : AppendEntries(g)
    \/ \E g \in aes : AppendEntriesReplay(g)

SpecAppend == InitAppend /\ [][NextAppend]_vars

\* A leader that stops while its successor replicates to it: the election
\* timeout elapses on replica 1 in its first term and on replica 3 up to the
\* next, the transport delivers the calls of replica 1 to the replicas of
\* DrReach alone, the client submits to replica 3 and stops replica 1, the
\* votes for replica 3 are asked of the replicas of DrVoters alone, the
\* heartbeat loop is woken by Submit and by commits alone, and the commit
\* loops of replicas 2 and 3 have not run yet.
DrReach == {3}
DrVoters == {2}

NextDrain ==
    \/ runElectionTimer(1, DrMaxTimeouts, DrMaxTerm, DrMaxRpc, DrReach)
    \/ runElectionTimer(3, DrMaxTimeouts, DrMaxTerm + 1, DrMaxRpc, DrVoters)
    \/ \E e \in elections, p \in Server :
          p \in DOMAIN e.calls /\ RequestVoteSend(e, p)
    \/ \E e \in elections, p \in Server :
          p \in DOMAIN e.calls /\ RequestVote(e, p)
    \/ \E e \in elections, p \in Server :
          p \in DOMAIN e.calls /\ RequestVoteReply(e, p)
    \/ \E c \in Command(3) : Submit(3, c, DrMaxLog)
    \/ \E i \in Server : SubmitSend(i)
    \/ sendAppendEntries(1, DrMaxRpc, DrReach)
    \/ sendAppendEntries(3, DrMaxRpc, Server)
    \/ \E i \in Server : heartbeatTrigger(i)
    \/ \E i \in Server : heartbeatCheck(i)
    \/ \E g \in aes : AppendEntriesSend(g)
    \/ \E g \in aes : AppendEntries(g)
    \/ \E g \in aes : AppendEntriesReply(g)
    \/ \E i \in Server : BlockedSend(i)
    \/ commitLoop(1)
    \/ commitSend(1)
    \/ Stop(1, DrMaxStops)

SpecDrain == Init /\ [][NextDrain]_vars

\* One RequestVote call alone, from Candidate 1 to replica 2, both drawn from
\* bounded sets: the logs hold entries of terms that do not decrease and do
\* not exceed the term of the replica; the voter is a Follower that has voted
\* for nobody or for a peer, a Candidate or a Leader that has voted for
\* itself, or any of these stopped.
VoEntry == [Command : {1}, Term : 1..VoMaxTerm]

VoLog(maxTerm) ==
    {log \in UNION {[1..n -> VoEntry] : n \in 0..VoMaxLen} :
        /\ \A k \in 1..Len(log) : log[k].Term <= maxTerm
        /\ \A k \in 1..(Len(log) - 1) : log[k].Term <= log[k + 1].Term}

VoFollower(i, term, votedFor, log) ==
    [NewConsensusModule(i) EXCEPT !.currentTerm = term,
                                  !.votedFor = votedFor,
                                  !.log = log]

VoCandidate(i, term, log) ==
    startElection(VoFollower(i, term - 1, -1, log), i)

VoVoter ==
    {VoFollower(2, term, votedFor, log) :
        term \in 0..VoMaxTerm, votedFor \in {-1, 1, 3}, log \in VoLog(VoMaxTerm)}
    \cup {VoCandidate(2, term, log) :
        term \in 1..VoMaxTerm, log \in VoLog(VoMaxTerm)}
    \cup {startLeader(VoCandidate(2, term, log), 2) :
        term \in 1..VoMaxTerm, log \in VoLog(VoMaxTerm)}

InitVote ==
    /\ \E term \in 1..VoMaxTerm : \E log \in VoLog(term) :
       \E voter \in VoVoter : \E dead \in BOOLEAN :
          /\ \A k \in 1..Len(voter.log) : voter.log[k].Term <= voter.currentTerm
          /\ voter.currentTerm = 0 => voter.votedFor = -1
          /\ cm = [i \in Server |->
                   IF i = 1 THEN VoCandidate(1, term, log)
                   ELSE IF i = 2
                   THEN IF dead
                        THEN [voter EXCEPT !.state = Dead, !.closed = TRUE,
                                           !.timers = 0]
                        ELSE voter
                   ELSE NewConsensusModule(i)]
          /\ elections = {[cand |-> 1, term |-> term, votes |-> 1,
                           calls |-> [p \in {2} |-> NewCall]]}
    /\ storage = [i \in Server |-> NoData]
    /\ aes = {}
    /\ delivered = [i \in Server |-> <<>>]
    /\ voted = [i \in Server |->
                  IF cm[i].votedFor # -1
                  THEN {<<cm[i].currentTerm, cm[i].votedFor>>} ELSE {}]
    /\ timeouts = 0

NextVote ==
    \/ \E e \in elections, p \in Server :
          p \in DOMAIN e.calls /\ RequestVoteSend(e, p)
    \/ \E e \in elections, p \in Server :
          p \in DOMAIN e.calls /\ RequestVote(e, p)
    \/ \E e \in elections, p \in Server :
          p \in DOMAIN e.calls /\ RequestVoteReply(e, p)

SpecVote == InitVote /\ [][NextVote]_vars

\* ------------------------------------------------------------------ claims
\* C1: Election Safety: no two replicas are Leader with the same
\* currentTerm.
ElectionSafety ==
    \A i, j \in Server :
        (i # j /\ cm[i].state = Leader /\ cm[j].state = Leader)
            => cm[i].currentTerm # cm[j].currentTerm

\* C2: State-Machine Safety: no two replicas send on their commit channels
\* CommitEntry values that differ for the same index.
StateMachineSafety ==
    \A i, j \in Server :
        \A a \in 1..Len(delivered[i]), b \in 1..Len(delivered[j]) :
            delivered[i][a].commit.Index = delivered[j][b].commit.Index
                => delivered[i][a].commit = delivered[j][b].commit

\* C3: Log Matching: two logs that hold entries of the same term at an
\* index are the same up to that index.
LogMatching ==
    \A i, j \in Server :
        \A k \in 1..intMin(Len(cm[i].log), Len(cm[j].log)) :
            cm[i].log[k].Term = cm[j].log[k].Term
                => SubSeq(cm[i].log, 1, k) = SubSeq(cm[j].log, 1, k)

\* C4: Leader Completeness: an entry delivered to a client at index k is at
\* index k of the log of every replica that is Leader afterwards; stated
\* for the leaders of terms no smaller than the term the entry was
\* delivered in.
LeaderCompleteness ==
    \A i, j \in Server :
        \A a \in 1..Len(delivered[i]) :
            (cm[j].state = Leader
                /\ cm[j].currentTerm >= delivered[i][a].commit.Term)
            => /\ delivered[i][a].commit.Index < Len(cm[j].log)
               /\ LogAt(cm[j].log, delivered[i][a].commit.Index)
                      = delivered[i][a].entry

\* C5: Monotonic term: no step lowers the currentTerm of a replica.
MonotonicTerm ==
    [][\A i \in Server : cm'[i].currentTerm >= cm[i].currentTerm]_vars

\* C6: One vote per term: a replica holds at most one votedFor other than
\* -1 while in one term.
OneVotePerTerm ==
    \A i \in Server :
        \A v, w \in voted[i] : v[1] = w[1] => v[2] = w[2]

\* C7: Durability before reply: when a RequestVote or AppendEntries handler
\* of a replica that is not Dead emits its reply, and when Submit returns
\* true, the Storage of the replica holds its currentTerm, votedFor and log.
DurableBeforeReply ==
    [][/\ \A e \in elections \ elections' : \A p \in DOMAIN e.calls :
             (/\ e.calls[p].phase = "req"
              /\ cm[p].state # Dead
              /\ \E f \in elections' \ elections :
                    /\ f.cand = e.cand /\ f.term = e.term
                    /\ p \in DOMAIN f.calls /\ f.calls[p].phase = "rep")
                 => storage'[p] = persistToStorage(cm'[p])
       /\ \A g \in aes' \ aes :
             (g.phase = "rep" /\ cm[g.to].state # Dead)
                 => storage'[g.to] = persistToStorage(cm'[g.to])
       /\ \A i \in Server :
             cm'[i].submitting < cm[i].submitting
                 => storage'[i] = persistToStorage(cm'[i])]_vars

\* C8: Ordered gap-free delivery: the Index values a replica sends on its
\* commit channel are 0, 1, 2, ... in this order.
OrderedDelivery ==
    \A i \in Server :
        \A k \in 1..Len(delivered[i]) : delivered[i][k].commit.Index = k - 1

\* The leader and a follower have each sent two CommitEntry values on their
\* commit channels.
OrderedDeliveryWitness ==
    \E i, j \in Server :
        /\ i # j
        /\ Len(delivered[i]) >= 2
        /\ Len(delivered[j]) >= 2

\* C9: Stop is one-way: a Dead replica stays Dead and no step changes its
\* currentTerm, votedFor, log or commitIndex.
StopOneWay ==
    [][\A i \in Server :
          cm[i].state = Dead
              => /\ cm'[i].state = Dead
                 /\ cm'[i].currentTerm = cm[i].currentTerm
                 /\ cm'[i].votedFor = cm[i].votedFor
                 /\ cm'[i].log = cm[i].log
                 /\ cm'[i].commitIndex = cm[i].commitIndex]_vars

\* C10: No send under the mutex: no task holds the mutex of a replica while
\* blocked on a send to newCommitReadyChan or triggerAEChan.
NoSendUnderMutex ==
    \A i \in Server : cm[i].held = <<>>

\* C11: Submit never blocks on its wake-up: a Submit that appended its entry
\* and released the mutex eventually sends on triggerAEChan and returns true.
SubmitReturns ==
    \A i \in Server : (cm[i].submitting > 0) ~> (cm[i].submitting = 0)

\* The log holds every entry of the request of g at its index, with its
\* term.
Holds(log, g) ==
    \A k \in 1..Len(g.entries) :
        /\ g.ni + k <= Len(log)
        /\ log[g.ni + k].Term = g.entries[k].Term

\* C12: Idempotent append: handling a request a second time right after the
\* first leaves the log as the first handling left it, and a handling whose
\* entries the log holds already leaves the log as it is, the entries that
\* follow them included.
IdempotentAppend ==
    [][\A g \in aes \ aes' :
          /\ g.phase = "rep" => cm'[g.to].log = cm[g.to].log
          /\ (g.phase = "req" /\ Holds(cm[g.to].log, g))
                 => cm'[g.to].log = cm[g.to].log]_vars

\* A request with entries was accepted and handled a second time, on a log
\* that has entries after those of the request.
IdempotentAppendWitness ==
    \E g \in aes :
        /\ g.phase = "dup"
        /\ g.success
        /\ g.entries # <<>>
        /\ Len(cm[g.to].log) > g.ni + Len(g.entries)

\* C13: Index bounds: on every replica -1 <= lastApplied <= commitIndex <
\* len(log).
IndexBounds ==
    \A i \in Server :
        /\ -1 <= cm[i].lastApplied
        /\ cm[i].lastApplied <= cm[i].commitIndex
        /\ cm[i].commitIndex < Len(cm[i].log)

\* log is a prefix of longer.
IsPrefix(log, longer) ==
    /\ Len(log) <= Len(longer)
    /\ SubSeq(longer, 1, Len(log)) = log

\* C14: Leader Append-Only. A step that leaves a replica Leader in the term
\* it was Leader of before keeps every entry the log had in its place: the
\* log after the step is the log before it, possibly extended at the end.
LeaderAppendOnly ==
    [][\A i \in Server :
          (/\ cm[i].state = Leader
           /\ cm'[i].state = Leader
           /\ cm'[i].currentTerm = cm[i].currentTerm)
          => IsPrefix(cm[i].log, cm'[i].log)]_vars

\* A Leader that has appended two entries of its term by Submit while an
\* AppendEntries of another leader, with an entry that conflicts with its
\* log, is about to be handled by it.
LeaderAppendOnlyWitness ==
    \E i \in Server : \E g \in aes :
        /\ cm[i].state = Leader
        /\ Len(cm[i].log) = 2
        /\ \A k \in 0..1 : LogAt(cm[i].log, k).Term = cm[i].currentTerm
        /\ g.to = i /\ g.phase = "req"
        /\ g.ni = 0
        /\ Len(g.entries) > 0
        /\ g.entries[1] # LogAt(cm[i].log, 0)

\* C15: Single election timer. No replica has more than one election timer
\* that goes on polling.
SingleElectionTimer == \A i \in Server : cm[i].timers <= 1

VoteGrantRule ==
    [][\A e \in elections \ elections' : \A p \in DOMAIN e.calls :
          \A f \in elections' \ elections :
             (/\ e.calls[p].phase = "req"
              /\ cm[p].state # Dead
              /\ f.cand = e.cand /\ f.term = e.term
              /\ p \in DOMAIN f.calls /\ f.calls[p].phase = "rep")
             => LET adopts == e.term > cm[p].currentTerm
                    term == IF adopts THEN e.term ELSE cm[p].currentTerm
                    votedFor == IF adopts THEN -1 ELSE cm[p].votedFor
                    n == Len(cm[p].log)
                    ownTerm == IF n = 0 THEN -1 ELSE cm[p].log[n].Term
                    granted ==
                        /\ term = e.term
                        /\ votedFor \in {-1, e.cand}
                        /\ \/ e.calls[p].b > ownTerm
                           \/ e.calls[p].b = ownTerm /\ e.calls[p].a >= n - 1
                IN  /\ f.calls[p].ok = granted
                    /\ f.calls[p].a = term
                    /\ cm'[p].currentTerm = term
                    /\ cm'[p].votedFor = IF granted THEN e.cand ELSE votedFor
                    /\ cm'[p].log = cm[p].log]_vars

\* The handler has granted a vote on the strength of the index comparison
\* alone: the voter's log is not empty and ends in the term the candidate's
\* log ends in.
VoteGrantRuleWitness ==
    \E e \in elections : \E p \in DOMAIN e.calls :
        /\ e.calls[p].phase = "rep"
        /\ e.calls[p].ok
        /\ cm[p].votedFor = e.cand
        /\ Len(cm[p].log) > 0
        /\ Len(cm[e.cand].log) >= Len(cm[p].log)
        /\ lastLogIndexAndTerm(cm[e.cand].log)[2] = lastLogIndexAndTerm(cm[p].log)[2]

\* C18: Current-term commit rule. A step in which a replica handles an
\* AppendEntries reply never lowers its commitIndex, and when it raises it
\* to k the replica is Leader, the entry at k is of its currentTerm, and the
\* replicas whose matchIndex is at least k, with the leader itself, are more
\* than half of the cluster.
CurrentTermCommit ==
    [][\A g \in aes \ aes' :
          (g.phase = "rep" /\ cm'[g.from].commitIndex # cm[g.from].commitIndex)
          => LET i == g.from
                 k == cm'[i].commitIndex
             IN  /\ cm[i].state = Leader
                 /\ cm'[i].state = Leader
                 /\ cm'[i].currentTerm = cm[i].currentTerm
                 /\ cm'[i].log = cm[i].log
                 /\ k > cm[i].commitIndex
                 /\ k < Len(cm[i].log)
                 /\ LogAt(cm[i].log, k).Term = cm[i].currentTerm
                 /\ (1 + Cardinality({p \in PeerIds(i) : cm'[i].matchIndex[p] >= k}))
                        * 2 > Cardinality(Server)]_vars

\* A Leader has raised its commitIndex to an entry of its term that a
\* majority holds, while another Leader has left uncommitted an entry of an
\* earlier term that a majority holds as well.
CurrentTermCommitWitness ==
    \E i, j \in Server :
        /\ cm[i].state = Leader
        /\ cm[i].commitIndex >= 0
        /\ LogAt(cm[i].log, cm[i].commitIndex).Term = cm[i].currentTerm
        /\ \E p \in PeerIds(i) : cm[i].matchIndex[p] >= cm[i].commitIndex
        /\ cm[j].state = Leader
        /\ cm[j].commitIndex = -1
        /\ Len(cm[j].log) > 0
        /\ LogAt(cm[j].log, 0).Term < cm[j].currentTerm
        /\ \E p \in PeerIds(j) : cm[j].matchIndex[p] >= 0

\* commitLoop of replica i has returned: newCommitReadyChan is closed and
\* empty and no CommitEntry is left to send.
Drained(i) ==
    /\ cm[i].closed
    /\ cm[i].newCommitReady = 0
    /\ cm[i].entries = <<>>

\* C19: Drain on Stop. After Stop commitLoop goes on until it has taken
\* every signal of newCommitReadyChan and sent every CommitEntry, and only
\* then ends: the process of a stopped replica never dies while commitLoop
\* has a signal left to take or a CommitEntry left to send.
DrainOnStop ==
    \A i \in Server : (cm[i].closed /\ cm[i].panicked) => Drained(i)

\* C20: Match-index soundness. On a Leader that no replica has left behind
\* in a later term, matchIndex[p] = m >= 0 means that the log of peer p is
\* longer than m and holds, at every index up to m, the entry the Leader's
\* log holds there.
MatchIndexSound ==
    \A i \in Server : \A p \in PeerIds(i) :
        (/\ cm[i].state = Leader
         /\ \A q \in Server : cm[q].currentTerm <= cm[i].currentTerm
         /\ cm[i].matchIndex[p] >= 0)
        => /\ Len(cm[p].log) > cm[i].matchIndex[p]
           /\ Len(cm[i].log) > cm[i].matchIndex[p]
           /\ \A k \in 0..cm[i].matchIndex[p] :
                 LogAt(cm[p].log, k) = LogAt(cm[i].log, k)

\* C21: Only an elected leader sends appends. When a goroutine of
\* sendAppendEntries builds its request, the replica has been a Candidate of
\* the term the request carries (it voted for itself in that term, as every
\* winner of the term's election did), and nextIndex of the peer is inside
\* its log: 0 <= nextIndex[peer] <= len(log).
OnlyLeaderSends ==
    [][\A g \in aes \ aes' :
          g.phase = "new"
          => /\ <<g.term, g.from>> \in voted[g.from]
             /\ cm[g.from].nextIndex[g.to] >= 0
             /\ cm[g.from].nextIndex[g.to] <= Len(cm[g.from].log)]_vars

============================================================================
